---- MODULE Spec2Model ----
(***************************************************************************)
(* Inventory manager (programa-v0.12.py): the in-memory product list, the  *)
(* CSV backing file, and the handlers that mutate them.                    *)
(*                                                                         *)
(* Texts (console input, CSV cells) are sequences of one-character         *)
(* strings.  A price (Python float) is an integer number of hundredths;    *)
(* only decimal texts with at most two fractional digits are entered.      *)
(***************************************************************************)
EXTENDS Integers, Sequences, FiniteSets, TLC

\* ------------------------------------------------------------------ bounds
MaxFallos == 1        \* consecutive saves the environment lets fail
MaxVendidos == 1      \* units the listed products may have sold before sell is disabled

\* ------------------------------------------------------------------- texts
Digitos == <<"0", "1", "2", "3", "4", "5", "6", "7", "8", "9">>

EsDigito(c) == \E i \in 1..10 : Digitos[i] = c

ValorDigito(c) == (CHOOSE i \in 1..10 : Digitos[i] = c) - 1

\* str.strip(): drops leading and trailing blanks
RECURSIVE QuitarIzq(_)
QuitarIzq(t) == IF t # <<>> /\ Head(t) = " " THEN QuitarIzq(Tail(t)) ELSE t

RECURSIVE QuitarDer(_)
QuitarDer(t) ==
    IF t # <<>> /\ t[Len(t)] = " " THEN QuitarDer(SubSeq(t, 1, Len(t) - 1)) ELSE t

Strip(t) == QuitarDer(QuitarIzq(t))

\* str.replace(c, por) for a one-character pattern
RECURSIVE Replace(_, _, _)
Replace(t, c, por) ==
    IF t = <<>> THEN <<>>
    ELSE (IF Head(t) = c THEN por ELSE <<Head(t)>>) \o Replace(Tail(t), c, por)

Contiene(t, c) == \E i \in 1..Len(t) : t[i] = c

TodosDigitos(t) == t # <<>> /\ \A i \in 1..Len(t) : EsDigito(t[i])

RECURSIVE ValorDigitos(_)
ValorDigitos(t) ==
    IF t = <<>> THEN 0
    ELSE 10 * ValorDigitos(SubSeq(t, 1, Len(t) - 1)) + ValorDigito(t[Len(t)])

SinSigno(t) == IF t # <<>> /\ Head(t) \in {"-", "+"} THEN Tail(t) ELSE t

Signo(t) == IF t # <<>> /\ Head(t) = "-" THEN -1 ELSE 1

\* int(text): ok = FALSE stands for ValueError
ParseInt(t) ==
    LET s == Strip(t)
        d == SinSigno(s)
    IN  IF TodosDigitos(d)
        THEN [ok |-> TRUE, val |-> Signo(s) * ValorDigitos(d)]
        ELSE [ok |-> FALSE, val |-> 0]

PosPunto(t) == IF Contiene(t, ".") THEN CHOOSE i \in 1..Len(t) : t[i] = "." ELSE 0

\* float(text), in hundredths: ok = FALSE stands for ValueError
ParseFloat(t) ==
    LET s == Strip(t)
        d == SinSigno(s)
        k == PosPunto(d)
        ent == IF k = 0 THEN d ELSE SubSeq(d, 1, k - 1)
        fra == IF k = 0 THEN <<>> ELSE SubSeq(d, k + 1, Len(d))
        bien == /\ ent \o fra # <<>>
                /\ \A i \in 1..Len(ent) : EsDigito(ent[i])
                /\ \A i \in 1..Len(fra) : EsDigito(fra[i])
                /\ Len(fra) <= 2
        cent == IF Len(fra) = 0 THEN 0
                ELSE IF Len(fra) = 1 THEN 10 * ValorDigitos(fra)
                ELSE ValorDigitos(fra)
    IN  IF bien
        THEN [ok |-> TRUE, val |-> Signo(s) * (100 * ValorDigitos(ent) + cent)]
        ELSE [ok |-> FALSE, val |-> 0]

RECURSIVE TextoNat(_)
TextoNat(n) ==
    IF n < 10 THEN <<Digitos[n + 1]>>
    ELSE TextoNat(n \div 10) \o <<Digitos[(n % 10) + 1]>>

\* str(int), as csv.writer renders an int cell
TextoInt(n) == IF n < 0 THEN <<"-">> \o TextoNat(-n) ELSE TextoNat(n)

\* repr(float), as csv.writer renders a float cell (value in hundredths)
TextoFloat(c) ==
    LET a == IF c < 0 THEN -c ELSE c
        f == a % 100
        fra == IF f % 10 = 0 THEN <<Digitos[(f \div 10) + 1]>>
               ELSE <<Digitos[(f \div 10) + 1], Digitos[(f % 10) + 1]>>
    IN  (IF c < 0 THEN <<"-">> ELSE <<>>) \o TextoNat(a \div 100) \o <<".">> \o fra

\* ------------------------------------------------------------ backing file
\* The backing file as csv.DictReader(delimiter=";") sees it: whether it
\* exists, whether it starts with a byte-order mark, the header cells and the
\* data rows (each a sequence of cell texts).
CAMPOS == <<"codigo", "nombre", "precio", "stock", "vendidos">>

ArchivoAusente == [existe |-> FALSE, bom |-> FALSE, cabecera |-> <<>>, filas |-> <<>>]

\* The header written when the file is absent uses the csv default delimiter
\* (a comma), so a ";" reader sees it as a single cell.
CabeceraCreada == <<"codigo,nombre,precio,stock,vendidos">>

ArchivoCreado ==
    [existe |-> TRUE, bom |-> FALSE, cabecera |-> CabeceraCreada, filas |-> <<>>]

\* k.strip().lower() on the header spellings that occur in the model
NormalizarClave(k) ==
    CASE k = "Codigo" -> "codigo"
      [] k = " nombre" -> "nombre"
      [] k = "PRECIO" -> "precio"
      [] k = "Stock " -> "stock"
      [] OTHER -> k

\* Marks for a dict entry that holds None (row shorter than the header) and
\* for a key the dict does not have.
Nulo == <<"None">>
SinClave == <<"KeyError">>

\* row.get(clave): the cell under the last column whose normalised name is
\* clave; columns with an empty name are dropped ("if k").
Celda(cabecera, fila, clave) ==
    LET cols == {i \in 1..Len(cabecera) :
                    cabecera[i] # "" /\ NormalizarClave(cabecera[i]) = clave}
    IN  IF cols = {} THEN SinClave
        ELSE LET i == CHOOSE j \in cols : \A m \in cols : m <= j
             IN  IF i > Len(fila) THEN Nulo ELSE fila[i]

PrecioRawSinPuntos(celda) ==
    LET base == IF celda = SinClave THEN <<>>
                ELSE IF celda = Nulo THEN <<"N", "o", "n", "e">>
                ELSE celda
    IN  Replace(Replace(Replace(base, "$", <<>>), ".", <<>>), ",", <<".">>)

PrecioRawSinComas(celda) ==
    LET base == IF celda = SinClave THEN <<>>
                ELSE IF celda = Nulo THEN <<"N", "o", "n", "e">>
                ELSE celda
    IN  Replace(Replace(Replace(Strip(base), "$", <<>>), " ", <<>>), ",", <<>>)

\* The price text of a row after stripping "$" and blanks and resolving the
\* decimal comma.
PrecioRaw(celda) ==
    LET base == IF celda = SinClave THEN <<>>
                ELSE IF celda = Nulo THEN <<"N", "o", "n", "e">>
                ELSE celda
        raw == Replace(Replace(Strip(base), "$", <<>>), " ", <<>>)
    IN  IF Contiene(raw, ",") /\ ~Contiene(raw, ".")
        THEN Replace(raw, ",", <<".">>)
        ELSE IF Contiene(raw, ".") /\ Contiene(raw, ",")
        THEN Replace(Replace(raw, ".", <<>>), ",", <<".">>)
        ELSE raw

DecodificarPrecio(celda) ==
    LET raw == PrecioRaw(celda)
    IN  IF raw = <<>> THEN 0
        ELSE IF ParseFloat(raw).ok THEN ParseFloat(raw).val ELSE 0

\* int(row.get(clave, 0)): a missing key gives 0, unparseable text gives 0,
\* and None raises TypeError, which nothing catches (ok = FALSE).
DecodificarEntero(celda) ==
    IF celda = SinClave THEN [ok |-> TRUE, val |-> 0]
    ELSE IF celda = Nulo THEN [ok |-> FALSE, val |-> 0]
    ELSE IF ParseInt(celda).ok THEN [ok |-> TRUE, val |-> ParseInt(celda).val]
    ELSE [ok |-> TRUE, val |-> 0]

DecodificarFila(cabecera, fila) ==
    LET st == DecodificarEntero(Celda(cabecera, fila, "stock"))
        ve == DecodificarEntero(Celda(cabecera, fila, "vendidos"))
        co == Celda(cabecera, fila, "codigo")
    IN  [ok |-> st.ok /\ ve.ok,
         p |-> [codigo |-> IF co = SinClave THEN <<>> ELSE co,
                nombre |-> Celda(cabecera, fila, "nombre"),
                precio |-> DecodificarPrecio(Celda(cabecera, fila, "precio")),
                stock |-> st.val,
                vendidos |-> ve.val]]

\* cargar_inventario(): the list returned, the file left behind, and whether
\* the call returned at all (ok = FALSE: it raised).
cargar_inventario(f) ==
    IF ~f.existe
    THEN [ok |-> TRUE, inv |-> <<>>, archivo |-> ArchivoCreado]
    ELSE [ok |-> \A i \in 1..Len(f.filas) : DecodificarFila(f.cabecera, f.filas[i]).ok,
          inv |-> [i \in 1..Len(f.filas) |-> DecodificarFila(f.cabecera, f.filas[i]).p],
          archivo |-> f]

\* The row guardar_inventario writes for one product.
CodificarFila(p) ==
    <<p.codigo, p.nombre, TextoFloat(p.precio), TextoInt(p.stock), TextoInt(p.vendidos)>>

Codificar(inv) == [i \in 1..Len(inv) |-> CodificarFila(inv[i])]

ArchivoDe(inv) ==
    [existe |-> TRUE, bom |-> TRUE, cabecera |-> CAMPOS, filas |-> Codificar(inv)]

\* What the environment does to one save: "ok"; "abrir" (open() raises, the
\* file is untouched); "escribir" (open() has truncated the file and the
\* write raises after k whole lines, the header being the first line).
ModosGuardar(inv) ==
    {[tipo |-> "ok", k |-> 0], [tipo |-> "abrir", k |-> 0]}
        \cup {[tipo |-> "escribir", k |-> j] : j \in 0..Len(inv)}

\* Mutant of guardar_inventario: the file is opened for appending, so the
\* rows written land after the rows already there.
guardar_inventarioAnexa(inv, previo, modo) ==
    IF modo.tipo = "ok"
    THEN [ok |-> TRUE,
          archivo |-> [existe |-> TRUE, bom |-> TRUE, cabecera |-> CAMPOS,
                       filas |-> previo.filas \o Codificar(inv)]]
    ELSE [ok |-> FALSE, archivo |-> previo]

\* Mutant of guardar_inventario: the file is opened without truncating it, so
\* the rows of the previous file beyond the ones written stay.
guardar_inventarioSinTruncar(inv, previo, modo) ==
    IF modo.tipo = "ok"
    THEN [ok |-> TRUE,
          archivo |-> [existe |-> TRUE, bom |-> TRUE, cabecera |-> CAMPOS,
                       filas |-> Codificar(inv)
                                    \o SubSeq(previo.filas, Len(inv) + 1,
                                              Len(previo.filas))]]
    ELSE [ok |-> FALSE, archivo |-> previo]

\* guardar_inventario(inventario): the flag returned and the file left behind
guardar_inventario(inv, previo, modo) ==
    CASE modo.tipo = "ok" -> [ok |-> TRUE, archivo |-> ArchivoDe(inv)]
      [] modo.tipo = "abrir" -> [ok |-> FALSE, archivo |-> previo]
      [] OTHER ->
            [ok |-> FALSE,
             archivo |-> [existe |-> TRUE,
                          bom |-> modo.k > 0,
                          cabecera |-> IF modo.k > 0 THEN CAMPOS ELSE <<>>,
                          filas |-> IF modo.k > 0
                                    THEN SubSeq(Codificar(inv), 1, modo.k - 1)
                                    ELSE <<>>]]

\* ------------------------------------------------------------------ inputs
A1 == <<"A", "1">>
a1 == <<"a", "1">>
Pan == <<"P", "a", "n">>
Te == <<"T", "e">>

\* What the user may type at a prompt (before .strip()).
CodigosEntrada == {A1, <<" ", "a", "1", " ">>}
NombresEntrada == {<<" ", "T", "e">>}
PreciosEntrada == {<<"1", ".", "5">>, <<"x">>}
StocksEntrada == {<<" ", "1">>, <<"-", "1">>, <<"x">>}
CantidadesEntrada == {<<"1">>, <<"2">>, <<"0">>, <<"x">>}
OpcionesEntrada == {<<"1">>, <<"2">>, <<"3">>, <<"4">>, <<"9">>}
ConfirmarEntrada == {<<"s">>, <<"n">>}

Producto(c, n, pr, st, ve) ==
    [codigo |-> c, nombre |-> n, precio |-> pr, stock |-> st, vendidos |-> ve]

\* Files found at start-up whose rows are well formed: no file at all, a
\* file this program saved, and a spreadsheet export with its own header
\* spelling and a localised price.
ArchivosLimpios ==
    {ArchivoAusente,
     ArchivoDe(<<Producto(A1, Pan, 150, 1, 0)>>),
     [existe |-> TRUE, bom |-> TRUE,
      cabecera |-> <<"Codigo", " nombre", "PRECIO", "Stock ">>,
      filas |-> <<<<a1, Te, <<"$", " ", "1", ",", "5">>, <<"1">>>>,
                  <<A1, Te, <<"1", ".", "2", "3", "4", ",", "5", "0">>, <<"0">>>>>>]}

\* A file edited by hand: the same code twice, a price that is no number, a
\* sold cell that is no number.
ArchivosLibres ==
    {[existe |-> TRUE, bom |-> FALSE, cabecera |-> CAMPOS,
      filas |-> <<<<A1, Te, <<"1", ",", "5">>, <<"1">>, <<"x">>>>,
                  <<A1, Pan, <<"b", "a", "d">>, <<"0">>, <<"0">>>>>>]}

\* ------------------------------------------------------------------- state
VARIABLES inventario, archivo, ultimo, fallos, pantalla

vars == <<inventario, archivo, ultimo, fallos, pantalla>>

\* ultimo: the handler that ran last, what was typed and how it ended
\* (guardado: "no" = guardar_inventario was not called, "ok" = it returned
\* True, "fallo" = it returned False; pendientes: the saves that had failed
\* since the last one that succeeded, when the handler started).
Ultimo(op, res, guardado, codigo, nombre, precio, numero) ==
    [op |-> op, res |-> res, guardado |-> guardado, codigo |-> codigo,
     nombre |-> nombre, precio |-> precio, numero |-> numero,
     pendientes |-> fallos]

\* pantalla: the report on the screen; main() clears the screen before and
\* after every handler, so only the report just generated is ever there.
Pantalla(mensaje, productos, stock, valor, vendidos, vendido, stock_bajo, top) ==
    [mensaje |-> mensaje, total_productos |-> productos,
     total_unidades_stock |-> stock,
     valor_total_inventario |-> valor,
     total_unidades_vendidas |-> vendidos,
     valor_total_vendido |-> vendido,
     stock_bajo |-> stock_bajo, top |-> top]

SinReporte == Pantalla("ninguno", 0, 0, 0, 0, 0, <<>>, <<>>)

\* main(): inventario = cargar_inventario()
InitDesde(archivos) ==
    \E f \in archivos :
        /\ cargar_inventario(f).ok
        /\ inventario = cargar_inventario(f).inv
        /\ archivo = cargar_inventario(f).archivo
        /\ fallos = 0
        /\ ultimo = Ultimo("inicio", "ok", "no", <<>>, <<>>, <<>>, <<>>)
        /\ pantalla = SinReporte

Init == InitDesde(ArchivosLimpios)

PrimerIndiceSinMayusculas(inv, codigo) ==
    LET Minusculas(t) == [k \in 1..Len(t) |-> IF t[k] = "A" THEN "a" ELSE t[k]]
    IN  IF \E i \in 1..Len(inv) : Minusculas(inv[i].codigo) = Minusculas(codigo)
        THEN CHOOSE i \in 1..Len(inv) :
                /\ Minusculas(inv[i].codigo) = Minusculas(codigo)
                /\ \A j \in 1..(i - 1) :
                        Minusculas(inv[j].codigo) # Minusculas(codigo)
        ELSE 0

\* The loop "for producto in inventario: if producto["codigo"] == codigo":
\* index of the first product with exactly that code, 0 when there is none.
PrimerIndice(inv, codigo) ==
    IF \E i \in 1..Len(inv) : inv[i].codigo = codigo
    THEN CHOOSE i \in 1..Len(inv) :
            /\ inv[i].codigo = codigo
            /\ \A j \in 1..(i - 1) : inv[j].codigo # codigo
    ELSE 0

\* Mutant of ExisteCodigo: only the first product is compared.
ExisteCodigoSoloPrimero(inv, pcodigo) == inv # <<>> /\ inv[1].codigo = pcodigo

\* Mutant of ExisteCodigo: the comparison ignores the first product.
ExisteCodigoSinPrimero(inv, pcodigo) == \E i \in 2..Len(inv) : inv[i].codigo = pcodigo

\* any(p["codigo"] == pcodigo for p in inventario)
ExisteCodigo(inv, pcodigo) == \E i \in 1..Len(inv) : inv[i].codigo = pcodigo

RemoverTodos(inv, p) ==
    SelectSeq(inv, LAMBDA x : x.codigo # p.codigo)

\* list.remove(p): drops the first element equal to p
Remover(inv, p) ==
    LET i == CHOOSE k \in 1..Len(inv) :
                /\ inv[k] = p
                /\ \A j \in 1..(k - 1) : inv[j] # p
    IN  SubSeq(inv, 1, i - 1) \o SubSeq(inv, i + 1, Len(inv))

\* The tail shared by the mutating handlers: the list is replaced by the
\* mutated one and guardar_inventario is called on it; the environment picks
\* how the write goes.  The handler prints the flag and returns either way.
GuardarCambios(nuevo, op, res, codigo, nombre, precio, numero) ==
    \E modo \in ModosGuardar(nuevo) :
        /\ modo.tipo # "ok" => fallos < MaxFallos
        /\ \E g \in {guardar_inventario(nuevo, archivo, modo)} :
            /\ inventario' = nuevo
            /\ archivo' = g.archivo
            /\ fallos' = IF g.ok THEN 0 ELSE fallos + 1
            /\ pantalla' = SinReporte
            /\ ultimo' = Ultimo(op, res, IF g.ok THEN "ok" ELSE "fallo",
                                codigo, nombre, precio, numero)

\* A handler that returns without touching the list or the file.
SinCambios(op, res, codigo, nombre, precio, numero) ==
    /\ ultimo' = Ultimo(op, res, "no", codigo, nombre, precio, numero)
    /\ pantalla' = SinReporte
    /\ UNCHANGED <<inventario, archivo, fallos>>

\* ---------------------------------------------------------------- handlers
\* float(input("Precio: ").strip()) followed by "if precio < 0: raise"
PrecioValido(txt) == ParseFloat(Strip(txt)).ok /\ ParseFloat(Strip(txt)).val >= 0

\* int(input("Stock: ").strip()) followed by "if stock < 0: raise"
StockValido(txt) == ParseInt(Strip(txt)).ok /\ ParseInt(Strip(txt)).val >= 0

\* Mutant of ProductoNuevo: the sold counter starts at the stock typed.
ProductoNuevoVendidosStock(pcodigo, nom, pre, sto) ==
    Producto(pcodigo, Strip(nom), ParseFloat(Strip(pre)).val,
             ParseInt(Strip(sto)).val, ParseInt(Strip(sto)).val)

\* The dict agregar_producto builds from what was typed.
ProductoNuevo(pcodigo, nom, pre, sto) ==
    Producto(pcodigo, Strip(nom), ParseFloat(Strip(pre)).val, ParseInt(Strip(sto)).val, 0)

\* agregar_producto: the code typed already exists; the handler asks again.
AgregarDuplicadoDe(codigos) ==
    \E cod \in codigos : \E pcodigo \in {Strip(cod)} :
        /\ ExisteCodigo(inventario, pcodigo)
        /\ SinCambios("agregar", "duplicado", pcodigo, <<>>, <<>>, <<>>)

\* agregar_producto: a price or stock entry is refused and asked for again.
AgregarRechazadoDe(codigos) ==
    /\ \E cod \in codigos, pre \in PreciosEntrada, sto \in StocksEntrada :
            /\ ~ExisteCodigo(inventario, Strip(cod))
            /\ ~PrecioValido(pre) \/ ~StockValido(sto)
    /\ SinCambios("agregar", "rechazado", <<>>, <<>>, <<>>, <<>>)

\* agregar_producto: the user does not confirm.
AgregarCanceladoDe(codigos) ==
    /\ \E cod \in codigos, pre \in PreciosEntrada, sto \in StocksEntrada,
          confirmar \in ConfirmarEntrada :
            /\ ~ExisteCodigo(inventario, Strip(cod))
            /\ PrecioValido(pre) /\ StockValido(sto)
            /\ confirmar # <<"s">>
    /\ SinCambios("agregar", "cancelado", <<>>, <<>>, <<>>, <<>>)

\* agregar_producto: the product is appended and the list saved.
AgregarProductoDe(codigos) ==
    \E cod \in codigos, nom \in NombresEntrada,
       pre \in PreciosEntrada, sto \in StocksEntrada,
       confirmar \in ConfirmarEntrada :
        \E pcodigo \in {Strip(cod)} :
            /\ ~ExisteCodigo(inventario, pcodigo)
            /\ PrecioValido(pre) /\ StockValido(sto)
            /\ confirmar = <<"s">>
            /\ GuardarCambios(Append(inventario, ProductoNuevo(pcodigo, nom, pre, sto)),
                              "agregar", "agregado", pcodigo, nom, pre, sto)

\* agregar_producto with the codes of CodigosEntrada typed.
AgregarDuplicado == AgregarDuplicadoDe(CodigosEntrada)

AgregarRechazado == AgregarRechazadoDe(CodigosEntrada)

AgregarCancelado == AgregarCanceladoDe(CodigosEntrada)

AgregarProducto == AgregarProductoDe(CodigosEntrada)

\* eliminar_producto: no product has the code.
EliminarNoEncontrado ==
    \E cod \in CodigosEntrada : \E pcodigo \in {Strip(cod)} :
        /\ PrimerIndice(inventario, pcodigo) = 0
        /\ SinCambios("eliminar", "no_encontrado", pcodigo, <<>>, <<>>, <<>>)

\* eliminar_producto: the first match is removed and the list saved (the
\* flag guardar_inventario returns is not looked at).
EliminarProducto ==
    \E cod \in CodigosEntrada : \E pcodigo \in {Strip(cod)} :
        \E i \in {PrimerIndice(inventario, pcodigo)} :
            /\ i # 0
            /\ GuardarCambios(Remover(inventario, inventario[i]),
                              "eliminar", "eliminado", pcodigo, <<>>, <<>>, <<>>)

EditadoReiniciaVendidos(producto, opcion, texto) ==
    CASE opcion = <<"1">> -> [producto EXCEPT !.nombre = Strip(texto)]
      [] opcion = <<"2">> ->
            IF ParseFloat(Strip(texto)).ok
            THEN [producto EXCEPT !.precio = ParseFloat(Strip(texto)).val]
            ELSE producto
      [] opcion = <<"3">> ->
            IF ParseInt(Strip(texto)).ok
            THEN [producto EXCEPT !.stock = ParseInt(Strip(texto)).val,
                                  !.vendidos = 0]
            ELSE producto
      [] OTHER -> producto

\* editar_producto, the option branches: the product after the edit
Editado(producto, opcion, texto) ==
    CASE opcion = <<"1">> -> [producto EXCEPT !.nombre = Strip(texto)]
      [] opcion = <<"2">> ->
            IF ParseFloat(Strip(texto)).ok
            THEN [producto EXCEPT !.precio = ParseFloat(Strip(texto)).val]
            ELSE producto
      [] opcion = <<"3">> ->
            IF ParseInt(Strip(texto)).ok
            THEN [producto EXCEPT !.stock = ParseInt(Strip(texto)).val]
            ELSE producto
      [] OTHER -> producto

\* editar_producto, the message printed by the option branch
ResultadoEditar(opcion, texto) ==
    CASE opcion = <<"1">> -> "nombre"
      [] opcion = <<"2">> ->
            IF ParseFloat(Strip(texto)).ok THEN "precio" ELSE "precio_invalido"
      [] opcion = <<"3">> ->
            IF ParseInt(Strip(texto)).ok THEN "stock" ELSE "stock_invalido"
      [] opcion = <<"4">> -> "cancelado"
      [] OTHER -> "opcion_invalida"

\* What is typed after the option: a name, a price, a stock, or nothing.
TextosEditar(opcion) ==
    CASE opcion = <<"1">> -> NombresEntrada
      [] opcion = <<"2">> -> PreciosEntrada
      [] opcion = <<"3">> -> StocksEntrada
      [] OTHER -> {<<>>}

\* editar_producto: no product has the code.
EditarNoEncontrado ==
    \E cod \in CodigosEntrada : \E pcodigo \in {Strip(cod)} :
        /\ PrimerIndice(inventario, pcodigo) = 0
        /\ SinCambios("editar", "no_encontrado", pcodigo, <<>>, <<>>, <<>>)

\* editar_producto: the option branch runs on the first match and the list
\* is saved, whatever the branch did.
EditarProducto ==
    \E cod \in CodigosEntrada, opcion \in OpcionesEntrada :
        \E texto \in TextosEditar(opcion), pcodigo \in {Strip(cod)} :
            \E i \in {PrimerIndice(inventario, pcodigo)} :
                /\ i # 0
                /\ GuardarCambios(
                        [inventario EXCEPT ![i] = Editado(inventario[i], opcion, texto)],
                        "editar", ResultadoEditar(opcion, texto), pcodigo,
                        IF opcion = <<"1">> THEN texto ELSE <<>>,
                        IF opcion = <<"2">> THEN texto ELSE <<>>,
                        IF opcion = <<"3">> THEN texto ELSE <<>>)

\* Mutant of ValidarVenta: the comparison with the stock is missing.
ValidarVentaSinStock(producto, texto) ==
    IF ~ParseInt(Strip(texto)).ok THEN "cantidad_invalida"
    ELSE IF ParseInt(Strip(texto)).val <= 0 THEN "no_positiva"
    ELSE "vendido"

\* registrar_venta, the checks on the quantity typed
ValidarVenta(producto, texto) ==
    IF ~ParseInt(Strip(texto)).ok THEN "cantidad_invalida"
    ELSE IF ParseInt(Strip(texto)).val <= 0 THEN "no_positiva"
    ELSE IF ParseInt(Strip(texto)).val > producto.stock THEN "sin_stock"
    ELSE "vendido"

\* Mutant of Vendido: the stock is not decremented.
VendidoSinDescontar(producto, cantidad) ==
    [producto EXCEPT !.vendidos = @ + cantidad]

VendidoResta(producto, cantidad) ==
    [producto EXCEPT !.stock = @ - cantidad, !.vendidos = @ - cantidad]

\* registrar_venta, the two assignments of a sale
Vendido(producto, cantidad) ==
    [producto EXCEPT !.stock = @ - cantidad, !.vendidos = @ + cantidad]

\* Units sold by the products now in the list.
RECURSIVE TotalVendidos(_)
TotalVendidos(inv) ==
    IF inv = <<>> THEN 0 ELSE Head(inv).vendidos + TotalVendidos(Tail(inv))

\* registrar_venta: no product has the code.
VentaNoEncontrado ==
    \E cod \in CodigosEntrada : \E pcodigo \in {Strip(cod)} :
        /\ PrimerIndice(inventario, pcodigo) = 0
        /\ SinCambios("venta", "no_encontrado", pcodigo, <<>>, <<>>, <<>>)

\* registrar_venta: the quantity is refused and the handler returns.
VentaRechazada ==
    \E cod \in CodigosEntrada, texto \in CantidadesEntrada :
        \E pcodigo \in {Strip(cod)} : \E i \in {PrimerIndice(inventario, pcodigo)} :
            /\ i # 0
            /\ ValidarVenta(inventario[i], texto) # "vendido"
            /\ SinCambios("venta", ValidarVenta(inventario[i], texto),
                          pcodigo, <<>>, <<>>, texto)

\* registrar_venta: the sale is applied to the first match and the list saved.
VentaRegistrada ==
    \E cod \in CodigosEntrada, texto \in CantidadesEntrada :
        \E pcodigo \in {Strip(cod)} : \E i \in {PrimerIndice(inventario, pcodigo)} :
            /\ i # 0
            /\ ValidarVenta(inventario[i], texto) = "vendido"
            /\ \E cantidad \in {ParseInt(Strip(texto)).val} :
                /\ TotalVendidos(inventario) + cantidad <= MaxVendidos
                /\ GuardarCambios(
                        [inventario EXCEPT ![i] = Vendido(inventario[i], cantidad)],
                        "venta", "vendido", pcodigo, <<>>, <<>>, texto)

\* ------------------------------------------------------------------ report
\* generar_reporte: umbral = 5
umbral == 5

\* generar_reporte: the [:3] of the top sellers
TopN == 3

RECURSIVE SumaStock(_)
SumaStock(inv) ==
    IF inv = <<>> THEN 0 ELSE Head(inv).stock + SumaStock(Tail(inv))

RECURSIVE SumaValorStock(_)
SumaValorStock(inv) ==
    IF inv = <<>> THEN 0
    ELSE Head(inv).stock * Head(inv).precio + SumaValorStock(Tail(inv))

RECURSIVE SumaVendidos(_)
SumaVendidos(inv) ==
    IF inv = <<>> THEN 0 ELSE Head(inv).vendidos + SumaVendidos(Tail(inv))

RECURSIVE SumaValorVendido(_)
SumaValorVendido(inv) ==
    IF inv = <<>> THEN 0
    ELSE Head(inv).vendidos * Head(inv).precio + SumaValorVendido(Tail(inv))

StockBajoEstricto(inv) == SelectSeq(inv, LAMBDA p : p.stock < umbral)

\* [p for p in inventario if p["stock"] <= umbral]
StockBajo(inv) == SelectSeq(inv, LAMBDA p : p.stock <= umbral)

RECURSIVE InsertarAntesDeIguales(_, _)
InsertarAntesDeIguales(orden, p) ==
    IF orden = <<>> THEN <<p>>
    ELSE IF Head(orden).vendidos > p.vendidos
         THEN <<Head(orden)>> \o InsertarAntesDeIguales(Tail(orden), p)
         ELSE <<p>> \o orden

\* One step of the stable descending sort: p goes behind every product that
\* sold as much or more.
RECURSIVE Insertar(_, _)
Insertar(orden, p) ==
    IF orden = <<>> THEN <<p>>
    ELSE IF Head(orden).vendidos >= p.vendidos
         THEN <<Head(orden)>> \o Insertar(Tail(orden), p)
         ELSE <<p>> \o orden

\* sorted(inventario, key=vendidos, reverse=True): a new list, the list given
\* is not touched; products that sold the same keep their list order.
RECURSIVE OrdenarPorVendidos(_)
OrdenarPorVendidos(inv) ==
    IF inv = <<>> THEN <<>>
    ELSE Insertar(OrdenarPorVendidos(SubSeq(inv, 1, Len(inv) - 1)), inv[Len(inv)])

Top(inv) ==
    LET orden == OrdenarPorVendidos(inv)
    IN  SubSeq(orden, 1, IF Len(orden) < TopN THEN Len(orden) ELSE TopN)

\* generar_reporte on an empty list: one message, nothing else.
ReporteVacio ==
    /\ Len(inventario) = 0
    /\ pantalla' = Pantalla("vacio", 0, 0, 0, 0, 0, <<>>, <<>>)
    /\ ultimo' = Ultimo("reporte", "vacio", "no", <<>>, <<>>, <<>>, <<>>)
    /\ UNCHANGED <<inventario, archivo, fallos>>

GenerarReporteOrdenaLista ==
    /\ Len(inventario) # 0
    /\ pantalla' = Pantalla("reporte", Len(inventario), SumaStock(inventario),
                            SumaValorStock(inventario), SumaVendidos(inventario),
                            SumaValorVendido(inventario),
                            StockBajo(inventario), Top(inventario))
    /\ ultimo' = Ultimo("reporte", "ok", "no", <<>>, <<>>, <<>>, <<>>)
    /\ inventario' = OrdenarPorVendidos(inventario)
    /\ UNCHANGED <<archivo, fallos>>

\* generar_reporte: the totals, the low-stock list and the top sellers are
\* printed; nothing is assigned to the list and nothing is saved.
GenerarReporte ==
    /\ Len(inventario) # 0
    /\ pantalla' = Pantalla("reporte", Len(inventario), SumaStock(inventario),
                            SumaValorStock(inventario), SumaVendidos(inventario),
                            SumaValorVendido(inventario),
                            StockBajo(inventario), Top(inventario))
    /\ ultimo' = Ultimo("reporte", "ok", "no", <<>>, <<>>, <<>>, <<>>)
    /\ UNCHANGED <<inventario, archivo, fallos>>

Next ==
    \/ AgregarDuplicado
    \/ AgregarRechazado
    \/ AgregarCancelado
    \/ AgregarProducto
    \/ EliminarNoEncontrado
    \/ EliminarProducto
    \/ EditarNoEncontrado
    \/ EditarProducto
    \/ VentaNoEncontrado
    \/ VentaRechazada
    \/ VentaRegistrada
    \/ ReporteVacio
    \/ GenerarReporte

Spec == Init /\ [][Next]_vars

\* The same program started on a hand-edited file.
InitLibre == InitDesde(ArchivosLibres)

SpecLibre == InitLibre /\ [][Next]_vars

\* ----------------------------------------------------------------- start-up
\* The program's first step seen on its own: main() calls cargar_inventario()
\* on whatever file it finds.

\* Rows of a file that starts with the header the program writes.
MaxFilasCarga == 2

CeldasPrecio ==
    {<<"1", ".", "5">>, <<"1", "9", ",", "9", "9">>,
     <<"$", " ", "1", "9", ",", "9", "9">>,
     <<"1", ".", "2", "3", "4", ",", "5", "6">>, <<"b", "a", "d">>, <<>>}
CeldasStock == {<<"1">>, <<"x">>, <<>>}
CeldasVendidos == {<<"0">>, <<"x">>, <<>>}

\* One row: whole, or cut short after its first n cells.
FilasCarga ==
    {SubSeq(<<A1, Te, pr, st, ve>>, 1, n) :
        pr \in CeldasPrecio, st \in CeldasStock, ve \in CeldasVendidos, n \in 2..5}

FilaBuena == <<a1, Pan, <<"1", ".", "5">>, <<"1">>, <<"0">>>>

ArchivosCarga ==
    {ArchivoAusente}
        \cup {[existe |-> TRUE, bom |-> TRUE, cabecera |-> CAMPOS,
               filas |-> [i \in 1..k |-> IF i < k THEN FilaBuena ELSE fila]] :
                    fila \in FilasCarga, k \in 1..MaxFilasCarga}

InitCarga ==
    /\ archivo \in ArchivosCarga
    /\ inventario = <<>>
    /\ fallos = 0
    /\ ultimo = Ultimo("arranque", "pendiente", "no", <<>>, <<>>, <<>>, <<>>)
    /\ pantalla = SinReporte

\* cargar_inventario() returns its list.
Cargar ==
    /\ ultimo.op = "arranque"
    /\ cargar_inventario(archivo).ok
    /\ inventario' = cargar_inventario(archivo).inv
    /\ archivo' = cargar_inventario(archivo).archivo
    /\ ultimo' = Ultimo("cargar", "ok", "no", <<>>, <<>>, <<>>, <<>>)
    /\ UNCHANGED <<fallos, pantalla>>

\* cargar_inventario() raises; main() has no handler, the program ends.
CargarFalla ==
    /\ ultimo.op = "arranque"
    /\ ~cargar_inventario(archivo).ok
    /\ ultimo' = Ultimo("cargar", "excepcion", "no", <<>>, <<>>, <<>>, <<>>)
    /\ UNCHANGED <<inventario, archivo, fallos, pantalla>>

NextCarga ==
    \/ Cargar
    \/ CargarFalla

SpecCarga == InitCarga /\ [][NextCarga]_vars

\* ------------------------------------------------------------ report alone
\* generar_reporte on lists with more products, stocks on both sides of the
\* threshold and equal sold values, as a file saved earlier may hold them.
MaxProductosReporte == 4

StocksReporte == {0, 5, 6}
VendidosReporte == {0, 10, 50}

\* The list a choice f of stock and sold for each position stands for.
InventarioReporte(f) ==
    [i \in DOMAIN f |-> Producto(<<"P">> \o TextoNat(i), Te, 150, f[i][1], f[i][2])]

InitReporte ==
    /\ \E n \in 0..MaxProductosReporte :
        \E f \in [1..n -> StocksReporte \X VendidosReporte] :
            inventario = InventarioReporte(f)
    /\ archivo = ArchivoDe(inventario)
    /\ fallos = 0
    /\ ultimo = Ultimo("inicio", "ok", "no", <<>>, <<>>, <<>>, <<>>)
    /\ pantalla = SinReporte

NextReporte ==
    \/ ReporteVacio
    \/ GenerarReporte

SpecReporte == InitReporte /\ [][NextReporte]_vars

\* ------------------------------------------------------------ the code typed
\* agregar_producto when the user answers the code prompt with an empty line
\* or with blanks, starting without a file; eliminar_producto as before.
CodigosConVacio == {A1, <<>>, <<" ", " ">>}

AgregarDuplicadoVacio == AgregarDuplicadoDe(CodigosConVacio)

AgregarRechazadoVacio == AgregarRechazadoDe(CodigosConVacio)

AgregarCanceladoVacio == AgregarCanceladoDe(CodigosConVacio)

AgregarProductoVacio == AgregarProductoDe(CodigosConVacio)

InitCodigoVacio == InitDesde({ArchivoAusente})

NextCodigoVacio ==
    \/ AgregarDuplicadoVacio
    \/ AgregarRechazadoVacio
    \/ AgregarCanceladoVacio
    \/ AgregarProductoVacio
    \/ EliminarNoEncontrado
    \/ EliminarProducto

SpecCodigoVacio == InitCodigoVacio /\ [][NextCodigoVacio]_vars

\* ------------------------------------------------------------ programa-v0.1
\* The earlier draft: products have no "vendidos", the price of a row is
\* decoded by dropping every "." before float() reads it, and add checks only
\* that price and stock parse.

\* Restarting is disabled once a price of the list is above this many
\* hundredths (every reload of a saved file multiplies the prices).
MaxPrecioV01 == 2000

CAMPOSV01 == <<"codigo", "nombre", "precio", "stock">>

PreciosV01 == {<<"1", "9", ".", "9", "9">>, <<"1", "0", ".", "5">>, <<"x">>}

ProductoV01(c, n, pr, st) ==
    [codigo |-> c, nombre |-> n, precio |-> pr, stock |-> st]

\* str(row.get("precio", "")).replace("$", "").replace(".", "").replace(",", ".")
PrecioTxtV01(celda) ==
    LET base == IF celda = SinClave THEN <<>>
                ELSE IF celda = Nulo THEN <<"N", "o", "n", "e">>
                ELSE celda
    IN  Replace(Replace(Replace(base, "$", <<>>), ".", <<>>), ",", <<".">>)

DecodificarPrecioV01(celda) ==
    LET txt == PrecioTxtV01(celda)
    IN  IF txt = <<>> THEN 0
        ELSE IF ParseFloat(txt).ok THEN ParseFloat(txt).val ELSE 0

DecodificarFilaV01(cabecera, fila) ==
    LET st == DecodificarEntero(Celda(cabecera, fila, "stock"))
    IN  [ok |-> st.ok,
         p |-> ProductoV01(Celda(cabecera, fila, "codigo"),
                           Celda(cabecera, fila, "nombre"),
                           DecodificarPrecioV01(Celda(cabecera, fila, "precio")),
                           st.val)]

\* v0.1 cargar_inventario()
cargar_inventarioV01(f) ==
    IF ~f.existe
    THEN [ok |-> TRUE, inv |-> <<>>,
          archivo |-> [existe |-> TRUE, bom |-> FALSE,
                       cabecera |-> <<"codigo,nombre,precio,stock">>,
                       filas |-> <<>>]]
    ELSE [ok |-> \A i \in 1..Len(f.filas) :
                    DecodificarFilaV01(f.cabecera, f.filas[i]).ok,
          inv |-> [i \in 1..Len(f.filas) |->
                    DecodificarFilaV01(f.cabecera, f.filas[i]).p],
          archivo |-> f]

CodificarV01(inv) ==
    [i \in 1..Len(inv) |->
        <<inv[i].codigo, inv[i].nombre, TextoFloat(inv[i].precio),
          TextoInt(inv[i].stock)>>]

\* v0.1 guardar_inventario(inventario)
guardar_inventarioV01(inv, previo, modo) ==
    CASE modo.tipo = "ok" ->
            [ok |-> TRUE,
             archivo |-> [existe |-> TRUE, bom |-> TRUE, cabecera |-> CAMPOSV01,
                          filas |-> CodificarV01(inv)]]
      [] modo.tipo = "abrir" -> [ok |-> FALSE, archivo |-> previo]
      [] OTHER ->
            [ok |-> FALSE,
             archivo |-> [existe |-> TRUE,
                          bom |-> modo.k > 0,
                          cabecera |-> IF modo.k > 0 THEN CAMPOSV01 ELSE <<>>,
                          filas |-> IF modo.k > 0
                                    THEN SubSeq(CodificarV01(inv), 1, modo.k - 1)
                                    ELSE <<>>]]

\* v0.1 main(): inventario = cargar_inventario(), with no file yet
InitV01 ==
    /\ inventario = <<>>
    /\ archivo = cargar_inventarioV01(ArchivoAusente).archivo
    /\ fallos = 0
    /\ ultimo = Ultimo("inicio", "ok", "no", <<>>, <<>>, <<>>, <<>>)
    /\ pantalla = SinReporte

\* v0.1 agregar_producto: the code exists already.
AgregarDuplicadoV01 ==
    \E cod \in CodigosEntrada : \E pcodigo \in {Strip(cod)} :
        /\ ExisteCodigo(inventario, pcodigo)
        /\ SinCambios("agregar", "duplicado", pcodigo, <<>>, <<>>, <<>>)

\* v0.1 agregar_producto: float() or int() raises ValueError.
AgregarRechazadoV01 ==
    /\ \E cod \in CodigosEntrada, pre \in PreciosV01, sto \in StocksEntrada :
            /\ ~ExisteCodigo(inventario, Strip(cod))
            /\ ~ParseFloat(Strip(pre)).ok \/ ~ParseInt(Strip(sto)).ok
    /\ SinCambios("agregar", "rechazado", <<>>, <<>>, <<>>, <<>>)

\* v0.1 agregar_producto: the product is appended and the list saved.
AgregarProductoV01 ==
    \E cod \in CodigosEntrada, nom \in NombresEntrada,
       pre \in PreciosV01, sto \in StocksEntrada :
        \E pcodigo \in {Strip(cod)} :
            /\ ~ExisteCodigo(inventario, pcodigo)
            /\ ParseFloat(Strip(pre)).ok /\ ParseInt(Strip(sto)).ok
            /\ \E nuevo \in {Append(inventario,
                                    ProductoV01(pcodigo, Strip(nom),
                                                ParseFloat(Strip(pre)).val,
                                                ParseInt(Strip(sto)).val))} :
                \E modo \in ModosGuardar(nuevo) :
                    /\ modo.tipo # "ok" => fallos < MaxFallos
                    /\ \E g \in {guardar_inventarioV01(nuevo, archivo, modo)} :
                        /\ inventario' = nuevo
                        /\ archivo' = g.archivo
                        /\ fallos' = IF g.ok THEN 0 ELSE fallos + 1
                        /\ pantalla' = SinReporte
                        /\ ultimo' = Ultimo("agregar", "agregado",
                                            IF g.ok THEN "ok" ELSE "fallo",
                                            pcodigo, nom, pre, sto)

\* The program is closed and started again: main() loads the file.
ReiniciarV01 ==
    /\ \A i \in 1..Len(inventario) : inventario[i].precio <= MaxPrecioV01
    /\ cargar_inventarioV01(archivo).ok
    /\ inventario' = cargar_inventarioV01(archivo).inv
    /\ archivo' = cargar_inventarioV01(archivo).archivo
    /\ ultimo' = Ultimo("reiniciar", "ok", "no", <<>>, <<>>, <<>>, <<>>)
    /\ pantalla' = SinReporte
    /\ UNCHANGED fallos

NextV01 ==
    \/ AgregarDuplicadoV01
    \/ AgregarRechazadoV01
    \/ AgregarProductoV01
    \/ ReiniciarV01

SpecV01 == InitV01 /\ [][NextV01]_vars

\* ------------------------------------------------------------------ claims
\* What the last handler was asked to do, read from what was typed.
CodigoPresente(inv, codigo) == \E k \in 1..Len(inv) : inv[k].codigo = codigo

PrimeroCon(inv, codigo) ==
    CHOOSE k \in 1..Len(inv) :
        inv[k].codigo = codigo /\ \A j \in 1..(k - 1) : inv[j].codigo # codigo

Cantidad(u) == ParseInt(u.numero)

\* C1: after any sequence of add, edit, delete and sell from an empty list or
\* a loaded one with no negative stock, every product has stock >= 0.
\* (Stated as claimed; editar_producto stores a negative stock.)
StockNoNegativo == \A i \in 1..Len(inventario) : inventario[i].stock >= 0

\* C2: after any sequence of add, edit, delete and sell from an empty list or
\* a loaded one with distinct codes, no two products have the same code.
CodigosUnicos ==
    \A i, j \in 1..Len(inventario) :
        i # j => inventario[i].codigo # inventario[j].codigo

TestigoCodigosUnicos ==
    /\ ultimo.op = "agregar" /\ ultimo.res = "agregado"
    /\ Len(inventario) = 2
    /\ inventario[1].codigo = A1 /\ inventario[2].codigo = a1

\* C3: a sell whose quantity is <= 0 or exceeds the stock of the product it
\* names changes neither the list nor the file, and does not save.
VentaPideRechazo(inv, u) ==
    /\ u.op = "venta"
    /\ CodigoPresente(inv, u.codigo)
    /\ Cantidad(u).ok
    /\ \/ Cantidad(u).val <= 0
       \/ Cantidad(u).val > inv[PrimeroCon(inv, u.codigo)].stock

VentaRechazadaSinCambios ==
    [][VentaPideRechazo(inventario, ultimo')
        => /\ inventario' = inventario
           /\ archivo' = archivo
           /\ ultimo'.guardado = "no"]_vars

TestigoVentaRechazada ==
    /\ ultimo.op = "venta" /\ ultimo.res = "sin_stock"
    /\ \E i \in 1..Len(inventario) :
        inventario[i].codigo = ultimo.codigo /\ inventario[i].stock = 1

\* C4: a sell of q with 0 < q <= stock changes only the first product with
\* the code: stock - q, sold + q, stock + sold preserved; its other fields,
\* the other products and the order stay.
VentaPideExito(inv, u) ==
    /\ u.op = "venta"
    /\ CodigoPresente(inv, u.codigo)
    /\ Cantidad(u).ok
    /\ Cantidad(u).val > 0
    /\ Cantidad(u).val <= inv[PrimeroCon(inv, u.codigo)].stock

VentaCambiaSoloElPrimero ==
    [][VentaPideExito(inventario, ultimo')
        => LET i == PrimeroCon(inventario, ultimo'.codigo)
               q == Cantidad(ultimo').val
           IN  /\ Len(inventario') = Len(inventario)
               /\ \A j \in 1..Len(inventario) : j # i => inventario'[j] = inventario[j]
               /\ inventario'[i].stock = inventario[i].stock - q
               /\ inventario'[i].vendidos = inventario[i].vendidos + q
               /\ inventario'[i].stock + inventario'[i].vendidos
                    = inventario[i].stock + inventario[i].vendidos
               /\ inventario'[i].codigo = inventario[i].codigo
               /\ inventario'[i].nombre = inventario[i].nombre
               /\ inventario'[i].precio = inventario[i].precio]_vars

TestigoVentaRegistrada ==
    /\ ultimo.op = "venta" /\ ultimo.res = "vendido"
    /\ Len(inventario) >= 2
    /\ inventario[1].codigo = ultimo.codigo /\ inventario[2].codigo = ultimo.codigo
    /\ inventario[1].vendidos = 1 /\ inventario[2].vendidos = 0

\* C5: an add whose code equals, character for character, the code of a
\* product in the list appends nothing, changes nothing and does not save.
AgregarDuplicadoSinCambios ==
    [][(ultimo'.op = "agregar" /\ CodigoPresente(inventario, ultimo'.codigo))
        => /\ inventario' = inventario
           /\ archivo' = archivo
           /\ ultimo'.guardado = "no"]_vars

TestigoAgregarDuplicado ==
    /\ ultimo.op = "agregar" /\ ultimo.res = "duplicado"
    /\ ultimo.codigo = a1
    /\ Len(inventario) = 2

\* C6: a successful add appends one product, last in the list, with the
\* code, name, price and stock given and sold = 0; the products already there
\* keep their values and order; looking the code up finds the new product.
AgregarAnexaUno ==
    [][(ultimo'.op = "agregar" /\ ultimo'.res = "agregado")
        => /\ Len(inventario') = Len(inventario) + 1
           /\ \A j \in 1..Len(inventario) : inventario'[j] = inventario[j]
           /\ inventario'[Len(inventario')] =
                [codigo |-> ultimo'.codigo,
                 nombre |-> Strip(ultimo'.nombre),
                 precio |-> ParseFloat(ultimo'.precio).val,
                 stock |-> ParseInt(ultimo'.numero).val,
                 vendidos |-> 0]
           /\ CodigoPresente(inventario', ultimo'.codigo)
           /\ PrimeroCon(inventario', ultimo'.codigo) = Len(inventario')]_vars

TestigoAgregado ==
    /\ ultimo.op = "agregar" /\ ultimo.res = "agregado" /\ ultimo.guardado = "ok"
    /\ Len(inventario) = 2
    /\ inventario[2] = Producto(A1, Te, 150, 1, 0)

\* C7: when an add, edit, delete or sell has run and its save succeeded, the
\* file holds the header and one row per product of the list, in list order,
\* with the product's field values.
ArchivoIgualMemoria ==
    ultimo.guardado = "ok"
        => /\ archivo.existe
           /\ archivo.cabecera = CAMPOS
           /\ Len(archivo.filas) = Len(inventario)
           /\ \A i \in 1..Len(inventario) :
                archivo.filas[i] = <<inventario[i].codigo,
                                     inventario[i].nombre,
                                     TextoFloat(inventario[i].precio),
                                     TextoInt(inventario[i].stock),
                                     TextoInt(inventario[i].vendidos)>>

TestigoArchivoIgualMemoria ==
    /\ ultimo.op = "eliminar" /\ ultimo.guardado = "ok"
    /\ Len(inventario) = 1
    /\ Len(archivo.filas) = 1

\* C8: when the save of an add, edit, delete or sell fails, the list after
\* the operation equals the list before it.
\* (Stated as claimed; the handlers keep the mutation.)
FalloRestauraMemoria ==
    [][ultimo'.guardado = "fallo" => inventario' = inventario]_vars

\* C9: a save that fails leaves the file with its complete previous content.
\* (Stated as claimed; open(..., "w") has truncated the file by then.)
GuardarTodoONada ==
    [][ultimo'.guardado = "fallo" => archivo' = archivo]_vars

\* C10: an edit of price or stock whose new value is unparseable or negative
\* leaves the list unchanged.
\* (Stated as claimed; editar_producto stores a negative value.)
EdicionPideRechazo(u) ==
    /\ u.op = "editar"
    /\ \/ u.precio # <<>> /\ (~ParseFloat(u.precio).ok \/ ParseFloat(u.precio).val < 0)
       \/ u.numero # <<>> /\ (~ParseInt(u.numero).ok \/ ParseInt(u.numero).val < 0)

EdicionInvalidaSinCambios ==
    [][EdicionPideRechazo(ultimo') => inventario' = inventario]_vars

\* C11: an edit changes at most the selected field (name, price or stock) of
\* the first product whose code matches; that product's code and sold, its two
\* fields not selected, every other product, and the length and order of the
\* list are unchanged.
EdicionCambiaSoloElCampo ==
    [][(ultimo'.op = "editar" /\ CodigoPresente(inventario, ultimo'.codigo))
        => LET i == PrimeroCon(inventario, ultimo'.codigo)
           IN  /\ Len(inventario') = Len(inventario)
               /\ \A j \in 1..Len(inventario) : j # i => inventario'[j] = inventario[j]
               /\ inventario'[i].codigo = inventario[i].codigo
               /\ inventario'[i].vendidos = inventario[i].vendidos
               /\ ultimo'.nombre = <<>> => inventario'[i].nombre = inventario[i].nombre
               /\ ultimo'.precio = <<>> => inventario'[i].precio = inventario[i].precio
               /\ ultimo'.numero = <<>> => inventario'[i].stock = inventario[i].stock]_vars

TestigoEdicionDelPrimero ==
    /\ ultimo.op = "editar" /\ ultimo.res = "stock"
    /\ Len(inventario) = 2
    /\ inventario[1].codigo = ultimo.codigo /\ inventario[2].codigo = ultimo.codigo
    /\ inventario[1].stock = -1
    /\ inventario[2] = Producto(A1, Pan, 0, 0, 0)

\* C12: while a product is in the list its sold value never decreases, and it
\* changes only in a successful sell of that product (the first match of the
\* code sold); a product appended by add starts with sold = 0, and a delete
\* leaves the sold values of the products that remain.
VendidosSoloCreceEnVenta ==
    [][IF ultimo'.op = "eliminar" /\ CodigoPresente(inventario, ultimo'.codigo)
       THEN LET i == PrimeroCon(inventario, ultimo'.codigo)
            IN  /\ Len(inventario') = Len(inventario) - 1
                /\ \A j \in 1..Len(inventario') :
                        inventario'[j].vendidos =
                            inventario[IF j < i THEN j ELSE j + 1].vendidos
       ELSE /\ Len(inventario') >= Len(inventario)
            /\ \A j \in 1..Len(inventario) :
                    /\ inventario'[j].vendidos >= inventario[j].vendidos
                    /\ inventario'[j].vendidos # inventario[j].vendidos
                        => /\ VentaPideExito(inventario, ultimo')
                           /\ j = PrimeroCon(inventario, ultimo'.codigo)
            /\ \A j \in (Len(inventario) + 1)..Len(inventario') :
                    inventario'[j].vendidos = 0]_vars

TestigoVendidosSeConserva ==
    /\ ultimo.op = "eliminar" /\ ultimo.res = "eliminado"
    /\ Len(inventario) = 1
    /\ inventario[1].codigo = a1
    /\ inventario[1].vendidos = 1

\* C13: an edit, a delete or a sell that names a code no product of the list
\* has leaves the list and the file unchanged.
NoEncontradoSinCambios ==
    [][(/\ ultimo'.op \in {"editar", "eliminar", "venta"}
        /\ ~CodigoPresente(inventario, ultimo'.codigo))
        => /\ inventario' = inventario
           /\ archivo' = archivo]_vars

TestigoNoEncontrado ==
    /\ ultimo.op = "editar" /\ ultimo.res = "no_encontrado"
    /\ ultimo.codigo = a1
    /\ Len(inventario) = 1
    /\ inventario[1].codigo = A1

\* C14: a delete that finds its code removes exactly one product, the first
\* in list order whose code is equal; the list is one shorter and the other
\* products keep their values and their relative order.
EliminarQuitaElPrimero ==
    [][(ultimo'.op = "eliminar" /\ CodigoPresente(inventario, ultimo'.codigo))
        => LET i == PrimeroCon(inventario, ultimo'.codigo)
           IN  /\ Len(inventario') = Len(inventario) - 1
               /\ \A j \in 1..(i - 1) : inventario'[j] = inventario[j]
               /\ \A j \in i..Len(inventario') : inventario'[j] = inventario[j + 1]]_vars

TestigoEliminadoElPrimero ==
    /\ ultimo.op = "eliminar" /\ ultimo.res = "eliminado"
    /\ ultimo.codigo = A1
    /\ Len(inventario) = 1
    /\ inventario[1] = Producto(A1, Pan, 0, 0, 0)

\* C15: load never fails: whatever the rows hold (a price, stock or sold cell
\* that is no number, is empty, or is missing because the row is shorter than
\* the header), load returns one product per row, in file order, with 0 in
\* the place of each such field.
\* (Stated as claimed; a missing stock or sold cell makes load raise.)
CargaNuncaFalla ==
    ultimo.op = "cargar"
        => /\ ultimo.res = "ok"
           /\ Len(inventario) = Len(archivo.filas)
           /\ \A i \in 1..Len(inventario) :
                LET fila == archivo.filas[i]
                IN  /\ inventario[i].codigo = fila[1]
                    /\ inventario[i].stock =
                            IF Len(fila) >= 4 /\ ParseInt(fila[4]).ok
                            THEN ParseInt(fila[4]).val ELSE 0
                    /\ inventario[i].vendidos =
                            IF Len(fila) >= 5 /\ ParseInt(fila[5]).ok
                            THEN ParseInt(fila[5]).val ELSE 0
                    /\ (Len(fila) < 3 \/ fila[3] \in {<<>>, <<"b", "a", "d">>})
                            => inventario[i].precio = 0

\* C16: save followed by load is the identity on the lists the handlers
\* produce: loading the file a successful save of the list writes returns the
\* same products, with the same code, name, price, stock and sold, in the
\* same order.
GuardarYCargarEsIdentidad ==
    LET g == guardar_inventario(inventario, archivo, [tipo |-> "ok", k |-> 0])
        c == cargar_inventario(g.archivo)
    IN  /\ g.ok
        /\ c.ok
        /\ Len(c.inv) = Len(inventario)
        /\ \A i \in 1..Len(inventario) :
                /\ c.inv[i].codigo = inventario[i].codigo
                /\ c.inv[i].nombre = inventario[i].nombre
                /\ c.inv[i].precio = inventario[i].precio
                /\ c.inv[i].stock = inventario[i].stock
                /\ c.inv[i].vendidos = inventario[i].vendidos

TestigoGuardarYCargar ==
    /\ ultimo.op = "editar" /\ ultimo.guardado = "ok"
    /\ Len(inventario) = 2
    /\ inventario[1].precio = 150 /\ inventario[1].vendidos = 1
    /\ inventario[2].precio = 123450 /\ inventario[2].stock = -1

\* C17: generating the report leaves the list (contents and order) and the
\* file unchanged, whatever the list holds.
ReporteSinCambios ==
    [][ultimo'.op = "reporte"
        => /\ inventario' = inventario
           /\ archivo' = archivo]_vars

TestigoReporteSinCambios ==
    /\ ultimo.op = "reporte" /\ pantalla.mensaje = "reporte"
    /\ Len(inventario) = 2
    /\ inventario[1].vendidos = 0 /\ inventario[2].vendidos = 1
    /\ pantalla.top[1] = inventario[2]

\* C18: the top sellers of the report are the first 3 products (all of them
\* when the list has fewer) of the list ordered by sold, largest first, where
\* products with equal sold stand in their list order.
TopSonLosMasVendidos ==
    pantalla.mensaje = "reporte"
        => LET n == Len(inventario)
               Delante(i) ==
                   Cardinality({j \in 1..n :
                        \/ inventario[j].vendidos > inventario[i].vendidos
                        \/ /\ inventario[j].vendidos = inventario[i].vendidos
                           /\ j < i})
           IN  /\ Len(pantalla.top) = IF n < 3 THEN n ELSE 3
               /\ \A i \in 1..n :
                    Delante(i) < 3 => pantalla.top[Delante(i) + 1] = inventario[i]

TestigoTopConEmpate ==
    /\ pantalla.mensaje = "reporte"
    /\ Len(inventario) = 4
    /\ inventario[1].vendidos = 0 /\ inventario[2].vendidos = 50
    /\ inventario[3].vendidos = 50 /\ inventario[4].vendidos = 10
    /\ pantalla.top = <<inventario[2], inventario[3], inventario[4]>>

\* C19: the low-stock list of the report holds exactly the products with
\* stock <= 5 (5 and 0 included), in list order.
StockBajoHastaCinco ==
    pantalla.mensaje = "reporte"
        => LET n == Len(inventario)
               Bajos(i) == Cardinality({j \in 1..i : inventario[j].stock <= 5})
           IN  /\ Len(pantalla.stock_bajo) = Bajos(n)
               /\ \A i \in 1..n :
                    inventario[i].stock <= 5
                        => pantalla.stock_bajo[Bajos(i)] = inventario[i]

TestigoStockBajoConLimite ==
    /\ pantalla.mensaje = "reporte"
    /\ Len(inventario) = 4
    /\ inventario[1].stock = 6 /\ inventario[2].stock = 5
    /\ inventario[3].stock = 0 /\ inventario[4].stock = 6
    /\ pantalla.stock_bajo = <<inventario[2], inventario[3]>>

\* C20: every product add creates has a non-empty code: add never appends a
\* product whose code is the empty string.
\* (Stated as claimed; agregar_producto accepts the empty code.)
CodigoNuncaVacio ==
    \A i \in 1..Len(inventario) : inventario[i].codigo # <<>>

\* C21: price decoding on load, once "$" and blanks are gone: a text with a
\* comma and no period is read with the comma as the decimal point ("19,99"
\* gives 19.99); a text with both is read without its periods and with the
\* comma as the decimal point ("1.234,56" gives 1234.56); a text that is no
\* number ("bad") gives 0.0, and load does not raise because of it.
PrecioDecodificado ==
    ultimo.op = "cargar"
        => /\ (\A i \in 1..Len(archivo.filas) : Len(archivo.filas[i]) = 5)
                => ultimo.res = "ok"
           /\ ultimo.res = "ok"
                => \A i \in 1..Len(inventario) :
                    LET fila == archivo.filas[i]
                        celda == IF Len(fila) >= 3 THEN fila[3] ELSE <<>>
                    IN  /\ celda = <<"1", "9", ",", "9", "9">>
                            => inventario[i].precio = 1999
                        /\ celda = <<"$", " ", "1", "9", ",", "9", "9">>
                            => inventario[i].precio = 1999
                        /\ celda = <<"1", ".", "2", "3", "4", ",", "5", "6">>
                            => inventario[i].precio = 123456
                        /\ celda = <<"1", ".", "5">>
                            => inventario[i].precio = 150
                        /\ celda = <<"b", "a", "d">>
                            => inventario[i].precio = 0

TestigoPrecioDecodificado ==
    /\ ultimo.op = "cargar" /\ ultimo.res = "ok"
    /\ Len(inventario) = 2
    /\ archivo.filas[2][3] = <<"1", ".", "2", "3", "4", ",", "5", "6">>
    /\ inventario[2].precio = 123456
    /\ inventario[1].precio = 150

\* C22: when there is no file, load creates it with the header row alone, in
\* the format of the file (cells separated by ";", the header save writes),
\* and returns an empty list; loading the file just created returns an empty
\* list too.
\* (Stated as claimed; the header load writes is separated by ",".)
ArchivoAusenteSeCrea ==
    [][(~archivo.existe /\ ultimo'.op = "cargar")
        => /\ ultimo'.res = "ok"
           /\ inventario' = <<>>
           /\ archivo'.existe
           /\ archivo'.cabecera = ArchivoDe(<<>>).cabecera
           /\ archivo'.filas = <<>>
           /\ cargar_inventario(archivo').ok
           /\ cargar_inventario(archivo').inv = <<>>]_vars

\* C23: when a save has failed after a change of the list, the next handler
\* whose save succeeds leaves the file equal to the whole list again: every
\* product the list held before that handler, the ones changed while the
\* save failed among them, is in the list and in the file unless it is the
\* product the handler itself works on.
GuardadoPosteriorSincroniza ==
    [][(ultimo'.guardado = "ok" /\ ultimo'.pendientes > 0)
        => /\ archivo'.existe
           /\ archivo'.cabecera = CAMPOS
           /\ archivo'.filas = Codificar(inventario')
           /\ \A i \in 1..Len(inventario) :
                inventario[i].codigo # ultimo'.codigo
                    => \E j \in 1..Len(inventario') :
                        /\ inventario'[j] = inventario[i]
                        /\ archivo'.filas[j] = CodificarFila(inventario[i])]_vars

TestigoGuardadoPosterior ==
    /\ ultimo.guardado = "ok" /\ ultimo.pendientes = 1
    /\ ultimo.op = "venta"
    /\ Len(inventario) = 2
    /\ inventario[1].codigo # ultimo.codigo
    /\ inventario[1].stock = -1
    /\ archivo.filas = Codificar(inventario)

\* C24: in programa-v0.1 a save followed by a load preserves the price of
\* every product: when the file holds what save wrote for the list, the list
\* loaded from it has the same products with the same prices.
\* (Stated as claimed; the load drops the decimal point save wrote.)
PrecioV01SeConserva ==
    [][(/\ ultimo'.op = "reiniciar"
        /\ archivo.existe
        /\ archivo.filas = CodificarV01(inventario))
        => /\ Len(inventario') = Len(inventario)
           /\ \A i \in 1..Len(inventario) :
                /\ inventario'[i].codigo = inventario[i].codigo
                /\ inventario'[i].precio = inventario[i].precio]_vars

====
